---- MODULE Spec2Model ----
(***************************************************************************)
(* A model of src/src/frontend/api.ts: the four operations of the          *)
(* zero-friction-login protocol client (getConfig, requestAuth, verifyOTP, *)
(* logout), the address and header helpers they call, and the transport    *)
(* (fetch, Response.json, Response.text) they wait on.                     *)
(*                                                                         *)
(* JavaScript values are records [t, v, f]: t is the typeof-like tag, v is *)
(* the text String(x) gives, f maps an object's own keys to values.        *)
(* A response body is a sequence of JSON lexemes; Response.text is their   *)
(* concatenation and Response.json a recursive-descent parse of them.      *)
(***************************************************************************)
EXTENDS Integers, Sequences, FiniteSets, TLC

VARIABLES zflData, inv

vars == <<zflData, inv>>

(* ------------------------------------------------------------------ *)
(* JavaScript values                                                    *)
(* ------------------------------------------------------------------ *)

NoFields == [k \in {} |-> 0]

Undef == [t |-> "undefined", v |-> "undefined", f |-> NoFields]

Null == [t |-> "null", v |-> "null", f |-> NoFields]

Str(s) == [t |-> "string", v |-> s, f |-> NoFields]

Num(n) == [t |-> "number", v |-> ToString(n), f |-> NoFields]

Bool(b) == [t |-> "boolean", v |-> IF b THEN "true" ELSE "false", f |-> NoFields]

Obj(fields) == [t |-> "object", v |-> "[object Object]", f |-> fields]

\* new Error(message), or the TypeError / SyntaxError the runtime raises
ErrorValue(message) == [t |-> "error", v |-> message, f |-> NoFields]

\* ToBoolean: what `x || y`, `if (x)` and `x ? a : b` test
Truthy(x) ==
    CASE x.t = "undefined" -> FALSE
      [] x.t = "null" -> FALSE
      [] x.t = "string" -> x.v # ""
      [] x.t = "number" -> x.v # "0"
      [] x.t = "boolean" -> x.v = "true"
      [] OTHER -> TRUE

\* x.k throws a TypeError exactly when x is undefined or null
CanRead(x) == x.t \notin {"undefined", "null"}

\* x.k, for x on which the read does not throw
Get(x, k) == IF x.t = "object" /\ k \in DOMAIN x.f THEN x.f[k] ELSE Undef

\* the object literal / assignment obj.k = val
Put(fields, k, val) ==
    [j \in DOMAIN fields \cup {k} |-> IF j = k THEN val ELSE fields[j]]

(* ------------------------------------------------------------------ *)
(* JSON text: lexemes, JSON.stringify, Response.text, Response.json     *)
(* ------------------------------------------------------------------ *)

Tok(kind, s) == [k |-> kind, s |-> s]

\* the text of one lexeme as it stands in the body
Lexeme(tok) == IF tok.k = "string" THEN "\"" \o tok.s \o "\"" ELSE tok.s

RECURSIVE Text(_)
Text(toks) == IF toks = <<>> THEN "" ELSE Lexeme(Head(toks)) \o Text(Tail(toks))

\* the order in which an object's keys are written
KeyOrder ==
    <<"email", "display_name", "otp", "success", "message", "error_detail",
      "reason", "token">>

RECURSIVE Stringify(_)
RECURSIVE StringifyMembers(_, _, _)
StringifyMembers(fields, i, first) ==
    IF i > Len(KeyOrder) THEN <<>>
    ELSE IF KeyOrder[i] \notin DOMAIN fields \/ fields[KeyOrder[i]].t = "undefined"
         THEN StringifyMembers(fields, i + 1, first)
         ELSE (IF first THEN <<>> ELSE <<Tok("punct", ",")>>)
              \o <<Tok("string", KeyOrder[i]), Tok("punct", ":")>>
              \o Stringify(fields[KeyOrder[i]])
              \o StringifyMembers(fields, i + 1, FALSE)

Stringify(x) ==
    CASE x.t = "string" -> <<Tok("string", x.v)>>
      [] x.t = "number" -> <<Tok("number", x.v)>>
      [] x.t = "boolean" -> <<Tok("literal", x.v)>>
      [] x.t = "null" -> <<Tok("literal", "null")>>
      [] OTHER -> <<Tok("punct", "{")>> \o StringifyMembers(x.f, 1, TRUE)
                  \o <<Tok("punct", "}")>>

Failed == [ok |-> FALSE, val |-> Undef, rest |-> <<>>]

Parsed(val, rest) == [ok |-> TRUE, val |-> val, rest |-> rest]

IsPunct(toks, s) == toks # <<>> /\ Head(toks) = Tok("punct", s)

\* the value of a one-element set: {F(x) : x \in {e}} evaluates e once
Only(S) == CHOOSE x \in S : TRUE

RECURSIVE ParseValue(_)
RECURSIVE ParseMembers(_, _)

\* members := string ":" value ("," string ":" value)* "}"
MembersAfter(r, key, fields) ==
    IF ~r.ok THEN Failed
    ELSE IF IsPunct(r.rest, "}")
         THEN Parsed(Obj(Put(fields, key, r.val)), Tail(r.rest))
         ELSE IF IsPunct(r.rest, ",")
              THEN ParseMembers(Tail(r.rest), Put(fields, key, r.val))
              ELSE Failed

ParseMembers(toks, fields) ==
    IF Len(toks) < 2 \/ toks[1].k # "string" \/ toks[2] # Tok("punct", ":")
    THEN Failed
    ELSE Only({MembersAfter(r, toks[1].s, fields) :
                 r \in {ParseValue(SubSeq(toks, 3, Len(toks)))}})

\* value := string | number | true | false | null | "{" "}" | "{" members
ParseValue(toks) ==
    IF toks = <<>> THEN Failed
    ELSE LET h == Head(toks)
             rest == Tail(toks)
         IN CASE h.k = "string" -> Parsed(Str(h.s), rest)
              [] h.k = "number" -> Parsed([t |-> "number", v |-> h.s, f |-> NoFields], rest)
              [] h = Tok("literal", "true") -> Parsed(Bool(TRUE), rest)
              [] h = Tok("literal", "false") -> Parsed(Bool(FALSE), rest)
              [] h = Tok("literal", "null") -> Parsed(Null, rest)
              [] h = Tok("punct", "{") ->
                   IF IsPunct(rest, "}") THEN Parsed(Obj(NoFields), Tail(rest))
                   ELSE ParseMembers(rest, NoFields)
              [] OTHER -> Failed

\* JSON.parse of a whole body: one value and nothing after it
WholeValue(r) ==
    IF r.ok /\ r.rest = <<>> THEN [ok |-> TRUE, val |-> r.val]
    ELSE [ok |-> FALSE, val |-> ErrorValue("Unexpected token in JSON")]

JsonParse(toks) == Only({WholeValue(r) : r \in {ParseValue(toks)}})

(* ------------------------------------------------------------------ *)
(* Completions of a block of code                                       *)
(* ------------------------------------------------------------------ *)

Return(val) == [kind |-> "return", val |-> val]

Throw(val) == [kind |-> "throw", val |-> val]

Pending == [kind |-> "pending", val |-> Undef]

(* ------------------------------------------------------------------ *)
(* getApiUrl and getHeaders                                             *)
(* ------------------------------------------------------------------ *)

\* Addresses are sequences of units: "/" and the words between slashes.
RECURSIVE Join(_)
Join(units) == IF units = <<>> THEN "" ELSE Head(units) \o Join(Tail(units))

NoZflData == [defined |-> FALSE, apiUrl |-> <<>>, nonce |-> ""]

ZflData(apiUrl, nonce) == [defined |-> TRUE, apiUrl |-> apiUrl, nonce |-> nonce]

\* the host page either injects no zflData or one with string fields
ZflDataValues ==
    {NoZflData, ZflData(<<>>, ""), ZflData(<<"/", "api">>, "n0"),
     ZflData(<<"/", "api", "/">>, "n0")}

EndsWithSlash(units) == units # <<>> /\ units[Len(units)] = "/"

StartsWithSlash(units) == units # <<>> /\ Head(units) = "/"

getApiUrl(zfl, endpoint) ==
    LET hasZflData == zfl.defined
        apiUrl == IF hasZflData /\ zfl.apiUrl # <<>> THEN zfl.apiUrl ELSE <<>>
    IN IF apiUrl # <<>>
       THEN LET baseUrl == IF EndsWithSlash(apiUrl)
                           THEN SubSeq(apiUrl, 1, Len(apiUrl) - 1)
                           ELSE apiUrl
                path == IF StartsWithSlash(endpoint) THEN endpoint
                        ELSE <<"/">> \o endpoint
            IN Join(baseUrl) \o Join(path)
       ELSE "/wp-json/zfl/v1" \o Join(endpoint)

getHeaders(zfl) ==
    IF zfl.defined /\ zfl.nonce # ""
    THEN ("Content-Type" :> "application/json") @@ ("X-WP-Nonce" :> zfl.nonce)
    ELSE ("Content-Type" :> "application/json")

\* the arguments of one fetch call; body is <<>> when the call passes none
Request(url, method, headers, body) ==
    [url |-> url, method |-> method, headers |-> headers,
     credentials |-> "same-origin", body |-> body]

NoRequest == Request("", "", NoFields, <<>>)

(* ------------------------------------------------------------------ *)
(* The transport: what a fetch can settle to                            *)
(* ------------------------------------------------------------------ *)

Statuses == {200, 429, 500}

\* Response.ok
Ok(status) == status >= 200 /\ status <= 299

TransportError == ErrorValue("Failed to fetch")

Rejects == [threw |-> TRUE, error |-> TransportError, status |-> 0, body |-> <<>>]

Response(status, body) ==
    [threw |-> FALSE, error |-> Undef, status |-> status, body |-> body]

NoOutcome == [threw |-> FALSE, error |-> Undef, status |-> 0, body |-> <<>>]

\* an object holding the fields whose value is not undefined
MakeObj(success, message, detail, reason, token) ==
    LET all == [k \in {"success", "message", "error_detail", "reason", "token"} |->
                  CASE k = "success" -> success
                    [] k = "message" -> message
                    [] k = "error_detail" -> detail
                    [] k = "reason" -> reason
                    [] OTHER -> token]
        present == {k \in DOMAIN all : all[k].t # "undefined"}
    IN Obj([k \in present |-> all[k]])

JsonObjects ==
    {MakeObj(s, m, d, r, Undef) :
        s \in {Undef, Bool(TRUE), Bool(FALSE)},
        m \in {Undef, Null, Str(""), Str("Too many requests"), Num(42)},
        d \in {Undef, Str(""), Str("wait 60s")},
        r \in {Undef, Str("duplicate_email")}}
    \cup {MakeObj(Bool(TRUE), Undef, Undef, Undef, Str("xyz")),
          MakeObj(Bool(FALSE), Obj(NoFields), Undef, Undef, Undef),
          MakeObj(Undef, Str("Already exists"), Obj(NoFields), Num(0), Undef)}

JsonValues == JsonObjects \cup {Null, Num(7), Str("ok"), Bool(FALSE)}

HtmlBody == <<Tok("junk", "<html>502 Bad Gateway</html>")>>

\* bodies that are not JSON text: empty, a proxy's page, cut short, trailing text
NonJsonBodies ==
    {<<>>, HtmlBody,
     <<Tok("punct", "{"), Tok("string", "message"), Tok("punct", ":")>>,
     <<Tok("punct", "{"), Tok("punct", "}"), Tok("punct", "}")>>}

Bodies == {Stringify(x) : x \in JsonValues} \cup NonJsonBodies

Outcomes == {Rejects} \cup {Response(s, b) : s \in Statuses, b \in Bodies}

(* ------------------------------------------------------------------ *)
(* The code of the four operations, between their awaits                *)
(* ------------------------------------------------------------------ *)

Email == "a@b.com"

Otp == "123456"

DisplayNames == {Undef, Str(""), Str("Ann")}

ConfigPath == <<"/", "config">>

RequestAuthPath == <<"/", "request-auth">>

VerifyOtpPath == <<"/", "verify-otp">>

LogoutPath == <<"/", "logout">>

\* requestAuthBody without the `if (displayName)` test
requestAuthBodyAlways(email, displayName) ==
    Put(Put(NoFields, "email", Str(email)), "display_name", displayName)

\* const body = { email }; if (displayName) body.display_name = displayName
requestAuthBody(email, displayName) ==
    LET body == Put(NoFields, "email", Str(email))
    IN IF Truthy(displayName) THEN Put(body, "display_name", displayName) ELSE body

verifyOTPBody(email, otp) == Put(Put(NoFields, "email", Str(email)), "otp", Str(otp))

getConfigRequest(zfl) == Request(getApiUrl(zfl, ConfigPath), "GET", getHeaders(zfl), <<>>)

requestAuthRequest(zfl, email, displayName) ==
    Request(getApiUrl(zfl, RequestAuthPath), "POST", getHeaders(zfl),
            <<Text(Stringify(Obj(requestAuthBody(email, displayName))))>>)

verifyOTPRequest(zfl, email, otp) ==
    Request(getApiUrl(zfl, VerifyOtpPath), "POST", getHeaders(zfl),
            <<Text(Stringify(Obj(verifyOTPBody(email, otp))))>>)

logoutRequest(zfl) == Request(getApiUrl(zfl, LogoutPath), "POST", getHeaders(zfl), <<>>)

\* { success: false, message } and { success: false, message, reason }
Rejected(message) == Obj(Put(Put(NoFields, "success", Bool(FALSE)), "message", message))

\* the rejection built without `reason: data.reason`
RejectedReasonDropped(message, reason) == Rejected(message)

RejectedWithReason(message, reason) == Obj(Put(Rejected(message).f, "reason", reason))

NetworkErrorMessage == "Network error. Please try again."

NullReadError == ErrorValue("Cannot read properties of null")

\* data.message || `<what> failed with status ${response.status}`
MessageOr(data, what, status) ==
    IF Truthy(Get(data, "message")) THEN Get(data, "message")
    ELSE Str(what \o " failed with status " \o ToString(status))

\* `await response.json()`: the parsed value, or the SyntaxError thrown
Settled(parsed) == IF parsed.ok THEN Return(parsed.val) ELSE Throw(parsed.val)

\* getConfigTry with the error text built from the status alone
getConfigTryStatusOnly(status, body) ==
    IF ~Ok(status)
    THEN Throw(ErrorValue("HTTP error! status: " \o ToString(status)))
    ELSE Only({Settled(data) : data \in {JsonParse(body)}})

\* getConfig's try block once the response is there
getConfigTry(status, body) ==
    IF ~Ok(status)
    THEN Throw(ErrorValue("HTTP error! status: " \o ToString(status)
                          \o ", body: " \o Text(body)))
    ELSE Only({Settled(data) : data \in {JsonParse(body)}})

\* catch (error) { throw error; }
getConfigCatch(completion) == completion

\* requestAuth's try block from `const data = await response.json()` on
requestAuthAfterJson(status, parsed) ==
    IF ~parsed.ok THEN Throw(parsed.val)
    ELSE IF ~Ok(status)
    THEN IF ~CanRead(parsed.val) THEN Throw(NullReadError)
         ELSE LET base == MessageOr(parsed.val, "Request", status)
                  detail == Get(parsed.val, "error_detail")
                  message == IF Truthy(detail)
                             THEN Str(base.v \o " - " \o detail.v)
                             ELSE base
              IN Return(RejectedWithReason(message, Get(parsed.val, "reason")))
    ELSE Return(parsed.val)

requestAuthTry(status, body) ==
    Only({requestAuthAfterJson(status, parsed) : parsed \in {JsonParse(body)}})

\* requestAuth's catch block rethrowing, as getConfig's does
requestAuthCatchRethrows(completion) == completion

requestAuthCatch(completion) ==
    IF completion.kind = "throw" THEN Return(Rejected(Str(NetworkErrorMessage)))
    ELSE completion

\* verifyOTPAfterJson rebuilding the success value as { success } instead of returning data
verifyOTPReshapes(status, parsed) ==
    IF ~parsed.ok THEN Throw(parsed.val)
    ELSE IF ~Ok(status)
    THEN IF ~CanRead(parsed.val) THEN Throw(NullReadError)
         ELSE Return(Rejected(MessageOr(parsed.val, "Verification", status)))
    ELSE IF ~CanRead(parsed.val) THEN Throw(NullReadError)
         ELSE Return(Obj(Put(NoFields, "success", Get(parsed.val, "success"))))

\* verifyOTP's try block from `const data = await response.json()` on
verifyOTPAfterJson(status, parsed) ==
    IF ~parsed.ok THEN Throw(parsed.val)
    ELSE IF ~Ok(status)
    THEN IF ~CanRead(parsed.val) THEN Throw(NullReadError)
         ELSE Return(Rejected(MessageOr(parsed.val, "Verification", status)))
    ELSE Return(parsed.val)

verifyOTPTry(status, body) ==
    Only({verifyOTPAfterJson(status, parsed) : parsed \in {JsonParse(body)}})

\* verifyOTP's catch block reporting the caught error's own text
verifyOTPCatchErrorText(completion) ==
    IF completion.kind = "throw" THEN Return(Rejected(Str(completion.val.v)))
    ELSE completion

verifyOTPCatch(completion) ==
    IF completion.kind = "throw" THEN Return(Rejected(Str(NetworkErrorMessage)))
    ELSE completion

\* logout's try block from `const data = await response.json()` on
logoutAfterJson(status, parsed) ==
    IF ~parsed.ok THEN Throw(parsed.val)
    ELSE IF ~Ok(status)
    THEN IF ~CanRead(parsed.val) THEN Throw(NullReadError)
         ELSE Return(Rejected(MessageOr(parsed.val, "Logout", status)))
    ELSE Return(parsed.val)

logoutTry(status, body) ==
    Only({logoutAfterJson(status, parsed) : parsed \in {JsonParse(body)}})

logoutCatch(completion) ==
    IF completion.kind = "throw" THEN Return(Rejected(Str(NetworkErrorMessage)))
    ELSE completion

Try(op, status, body) ==
    CASE op = "getConfig" -> getConfigTry(status, body)
      [] op = "requestAuth" -> requestAuthTry(status, body)
      [] op = "verifyOTP" -> verifyOTPTry(status, body)
      [] OTHER -> logoutTry(status, body)

Catch(op, completion) ==
    CASE op = "getConfig" -> getConfigCatch(completion)
      [] op = "requestAuth" -> requestAuthCatch(completion)
      [] op = "verifyOTP" -> verifyOTPCatch(completion)
      [] OTHER -> logoutCatch(completion)

(* ------------------------------------------------------------------ *)
(* Invocations                                                          *)
(* ------------------------------------------------------------------ *)

MaxConcurrent == 2

\* an invocation: where it stands, what it sent, what the transport gave it
\* and what it handed back to its caller
NotCalled ==
    [pc |-> "idle", op |-> "none", displayName |-> Undef, request |-> NoRequest,
     fetches |-> 0, outcome |-> NoOutcome, result |-> Pending]

\* IssueFetch sharing the request of an invocation already waiting on the same one
IssueFetchDeduplicated(s, request) ==
    IF \E j \in DOMAIN inv : inv[j].pc = "fetching" /\ inv[j].request = request
    THEN [s EXCEPT !.request = request, !.pc = "fetching"]
    ELSE [s EXCEPT !.request = request, !.fetches = @ + 1, !.pc = "fetching"]

\* await fetch(url, init): the one place a request leaves the client
IssueFetch(s, request) ==
    [s EXCEPT !.request = request, !.fetches = @ + 1, !.pc = "fetching"]

Call(i, op, displayName, request) ==
    /\ inv[i].pc = "idle"
    /\ inv' = [inv EXCEPT ![i] =
                 IssueFetch([@ EXCEPT !.op = op, !.displayName = displayName], request)]
    /\ UNCHANGED zflData

getConfig(i) == Call(i, "getConfig", Undef, getConfigRequest(zflData))

requestAuth(i, email, displayName) ==
    Call(i, "requestAuth", displayName, requestAuthRequest(zflData, email, displayName))

verifyOTP(i, email, otp) ==
    Call(i, "verifyOTP", Undef, verifyOTPRequest(zflData, email, otp))

logout(i) == Call(i, "logout", Undef, logoutRequest(zflData))

\* the transport settles the fetch: it rejects, or resolves to a response
FetchSettles(i, outcome) ==
    /\ inv[i].pc = "fetching"
    /\ inv' = [inv EXCEPT ![i].outcome = outcome, ![i].pc = "fetched"]
    /\ UNCHANGED zflData

\* the code after `await fetch(...)`: into the catch block when fetch threw,
\* else up to `await response.json()` (getConfig on a failure status:
\* `await response.text()`)
AfterFetch(i) ==
    /\ inv[i].pc = "fetched"
    /\ inv' = [inv EXCEPT ![i] =
                 IF inv[i].outcome.threw
                 THEN [inv[i] EXCEPT
                         !.result = Catch(inv[i].op, Throw(inv[i].outcome.error)),
                         !.pc = "done"]
                 ELSE [inv[i] EXCEPT !.pc = "reading"]]
    /\ UNCHANGED zflData

\* the code after the body has been read, to the return or throw
AfterBody(i) ==
    /\ inv[i].pc = "reading"
    /\ inv' = [inv EXCEPT ![i].result =
                   Catch(inv[i].op, Try(inv[i].op, inv[i].outcome.status,
                                        inv[i].outcome.body)),
                 ![i].pc = "done"]
    /\ UNCHANGED zflData

\* one invocation, every response the endpoint can send
Init ==
    /\ zflData \in ZflDataValues
    /\ inv = [i \in {1} |-> NotCalled]

Next ==
    \/ \E i \in DOMAIN inv : getConfig(i)
    \/ \E i \in DOMAIN inv, dn \in DisplayNames : requestAuth(i, Email, dn)
    \/ \E i \in DOMAIN inv : verifyOTP(i, Email, Otp)
    \/ \E i \in DOMAIN inv : logout(i)
    \/ \E i \in DOMAIN inv, o \in Outcomes : FetchSettles(i, o)
    \/ \E i \in DOMAIN inv : AfterFetch(i)
    \/ \E i \in DOMAIN inv : AfterBody(i)

Spec == Init /\ [][Next]_vars

\* one response per path: transport failure, success, rejection, unparseable
PathOutcomes ==
    {Rejects,
     Response(200, Stringify(MakeObj(Bool(TRUE), Undef, Undef, Undef, Str("xyz")))),
     Response(500, Stringify(MakeObj(Bool(FALSE), Str("Too many requests"), Undef,
                                     Undef, Undef))),
     Response(500, HtmlBody)}

\* MaxConcurrent invocations in flight at once
ConcInit ==
    /\ zflData = NoZflData
    /\ inv = [i \in 1..MaxConcurrent |-> NotCalled]

ConcNext ==
    \/ \E i \in DOMAIN inv : getConfig(i)
    \/ \E i \in DOMAIN inv : requestAuth(i, Email, Undef)
    \/ \E i \in DOMAIN inv : verifyOTP(i, Email, Otp)
    \/ \E i \in DOMAIN inv : logout(i)
    \/ \E i \in DOMAIN inv, o \in PathOutcomes : FetchSettles(i, o)
    \/ \E i \in DOMAIN inv : AfterFetch(i)
    \/ \E i \in DOMAIN inv : AfterBody(i)

\* a settled promise's continuation is a queued microtask: the event loop runs it
ConcSpec ==
    /\ ConcInit
    /\ [][ConcNext]_vars
    /\ \A i \in 1..MaxConcurrent : WF_vars(AfterFetch(i)) /\ WF_vars(AfterBody(i))

(* ------------------------------------------------------------------ *)
(* Properties                                                           *)
(* ------------------------------------------------------------------ *)

Mutating == {"requestAuth", "verifyOTP", "logout"}

Completed(i) == inv[i].pc = "done"

\* the invocation got a response (the fetch resolved) and has completed
Answered(i) == Completed(i) /\ ~inv[i].outcome.threw

StatusOf(i) == inv[i].outcome.status

BodyOf(i) == inv[i].outcome.body

\* the body is JSON text holding an object
IsJsonObject(body) == JsonParse(body).ok /\ JsonParse(body).val.t = "object"

\* the value returned is an object with exactly these keys
HasKeys(val, keys) == val.t = "object" /\ DOMAIN val.f = keys

\* C1: requestAuth, verifyOTP and logout never let an exception escape: whatever
\* the transport does, whatever the status and the body, the invocation
\* completes by returning a value.
NoExceptionEscapes ==
    \A i \in DOMAIN inv :
        Completed(i) /\ inv[i].op \in Mutating => inv[i].result.kind = "return"

\* C1 witness: a failure status with a JSON null body, where reading
\* data.message throws inside the try block, and logout still returned.
NullBodyRecovered ==
    \E i \in DOMAIN inv :
        /\ Completed(i) /\ inv[i].op = "logout"
        /\ inv[i].outcome = Response(500, <<Tok("literal", "null")>>)
        /\ inv[i].result.kind = "return"

\* a fully-formed outcome: success true, or success false with a non-empty
\* string message
FullyFormed(val) ==
    /\ val.t = "object"
    /\ "success" \in DOMAIN val.f
    /\ \/ val.f["success"] = Bool(TRUE)
       \/ /\ val.f["success"] = Bool(FALSE)
          /\ "message" \in DOMAIN val.f
          /\ val.f["message"].t = "string"
          /\ val.f["message"].v # ""

\* C2: every value requestAuth, verifyOTP or logout returns is a fully-formed
\* outcome variant: success = true, or success = false with a message that is
\* a non-empty string.
EveryOutcomeFullyFormed ==
    \A i \in DOMAIN inv :
        Completed(i) /\ inv[i].op \in Mutating /\ inv[i].result.kind = "return"
            => FullyFormed(inv[i].result.val)

\* the word each operation puts in its synthesized status message
What(op) ==
    CASE op = "requestAuth" -> "Request"
      [] op = "verifyOTP" -> "Verification"
      [] OTHER -> "Logout"

\* C3: on a failure status with a body that carries no message field (an
\* empty body included) each operation returns Rejected with its synthesized
\* "<What> failed with status <code>"; when the body carries a message, that
\* message is returned instead.  (requestAuth is taken on bodies without
\* error_detail, whose appending is C5's.)
SynthesizedStatusMessage ==
    \A i \in DOMAIN inv :
        /\ Answered(i) /\ inv[i].op \in Mutating /\ ~Ok(StatusOf(i))
        /\ \/ BodyOf(i) = <<>>
           \/ /\ IsJsonObject(BodyOf(i))
              /\ ~Truthy(Get(JsonParse(BodyOf(i)).val, "error_detail"))
        => LET sent == IF BodyOf(i) = <<>> THEN Undef
                       ELSE Get(JsonParse(BodyOf(i)).val, "message")
               got == inv[i].result.val
           IN /\ inv[i].result.kind = "return"
              /\ Get(got, "success") = Bool(FALSE)
              /\ sent = Undef =>
                    Get(got, "message")
                      = Str(What(inv[i].op) \o " failed with status "
                            \o ToString(StatusOf(i)))
              /\ sent.t = "string" /\ sent.v # "" => Get(got, "message") = sent

\* C3 on the bodies that are a JSON object: there the synthesized message, or
\* the endpoint's own non-empty one, is what comes back.
SynthesizedOnJsonObjects ==
    \A i \in DOMAIN inv :
        /\ Answered(i) /\ inv[i].op \in Mutating /\ ~Ok(StatusOf(i))
        /\ IsJsonObject(BodyOf(i))
        /\ ~Truthy(Get(JsonParse(BodyOf(i)).val, "error_detail"))
        => LET sent == Get(JsonParse(BodyOf(i)).val, "message")
               got == inv[i].result.val
           IN /\ inv[i].result.kind = "return"
              /\ Get(got, "success") = Bool(FALSE)
              /\ sent = Undef =>
                    Get(got, "message")
                      = Str(What(inv[i].op) \o " failed with status "
                            \o ToString(StatusOf(i)))
              /\ sent.t = "string" /\ sent.v # "" => Get(got, "message") = sent

\* C4: when the transport fails, requestAuth, verifyOTP and logout return
\* exactly { success: false, message: "Network error. Please try again." },
\* with no reason key.
TransportFailureNormalized ==
    \A i \in DOMAIN inv :
        Completed(i) /\ inv[i].op \in Mutating /\ inv[i].outcome.threw
            => /\ inv[i].result.kind = "return"
               /\ HasKeys(inv[i].result.val, {"success", "message"})
               /\ inv[i].result.val.f["success"] = Bool(FALSE)
               /\ inv[i].result.val.f["message"]
                    = Str("Network error. Please try again.")

\* C4 witness: verifyOTP completed after its fetch rejected.
VerifyOTPTransportFailed ==
    \E i \in DOMAIN inv :
        /\ Completed(i) /\ inv[i].op = "verifyOTP" /\ inv[i].outcome.threw
        /\ inv[i].fetches = 1

\* C5: on a failure status requestAuth's message is the base message (the
\* endpoint's message if there is one, else "Request failed with status
\* <code>") with " - " and error_detail appended if and only if the body
\* supplies one; verifyOTP and logout never append error_detail.
ErrorDetailAppended ==
    \A i \in DOMAIN inv :
        Answered(i) /\ inv[i].op \in Mutating /\ ~Ok(StatusOf(i))
        => LET parsed == JsonParse(BodyOf(i))
               data == IF parsed.ok THEN parsed.val ELSE Undef
               sent == Get(data, "message")
               detail == Get(data, "error_detail")
               base == IF Truthy(sent) THEN sent.v
                       ELSE What(inv[i].op) \o " failed with status "
                            \o ToString(StatusOf(i))
               got == Get(inv[i].result.val, "message")
           IN /\ inv[i].result.kind = "return"
              /\ IF inv[i].op = "requestAuth" /\ Truthy(detail)
                 THEN got = Str(base \o " - " \o detail.v)
                 ELSE got.v = base

\* C5 on the bodies that are a JSON object: there the message is the base
\* message, with " - " and error_detail appended by requestAuth alone, and
\* only for an error_detail that is not empty.
ErrorDetailAppendedOnJsonObjects ==
    \A i \in DOMAIN inv :
        /\ Answered(i) /\ inv[i].op \in Mutating /\ ~Ok(StatusOf(i))
        /\ IsJsonObject(BodyOf(i))
        => LET data == JsonParse(BodyOf(i)).val
               sent == Get(data, "message")
               detail == Get(data, "error_detail")
               base == IF Truthy(sent) THEN sent.v
                       ELSE What(inv[i].op) \o " failed with status "
                            \o ToString(StatusOf(i))
               got == Get(inv[i].result.val, "message")
           IN /\ inv[i].result.kind = "return"
              /\ IF inv[i].op = "requestAuth" /\ Truthy(detail)
                 THEN got = Str(base \o " - " \o detail.v)
                 ELSE got.v = base

\* C6: on a failure status requestAuth returns the body's reason unchanged
\* (undefined when the body has none); the rejection a transport failure
\* produces has no reason, and neither have those verifyOTP and logout build.
ReasonPassedThrough ==
    \A i \in DOMAIN inv :
        Completed(i) /\ inv[i].op \in Mutating
        => LET parsed == JsonParse(BodyOf(i))
               data == IF parsed.ok THEN parsed.val ELSE Undef
               got == inv[i].result.val
           IN /\ inv[i].outcome.threw => "reason" \notin DOMAIN got.f
              /\ ~inv[i].outcome.threw /\ ~Ok(StatusOf(i))
                   => IF inv[i].op = "requestAuth"
                      THEN Get(got, "reason") = Get(data, "reason")
                      ELSE "reason" \notin DOMAIN got.f

\* C6 witness: requestAuth at 429 on a body with reason "duplicate_email"
\* returned that reason.
DuplicateEmailReasonReturned ==
    \E i \in DOMAIN inv :
        /\ Answered(i) /\ inv[i].op = "requestAuth" /\ StatusOf(i) = 429
        /\ Get(JsonParse(BodyOf(i)).val, "reason") = Str("duplicate_email")
        /\ Get(inv[i].result.val, "reason") = Str("duplicate_email")

\* C7: on a success status with a parseable body, requestAuth, verifyOTP and
\* logout return the parsed body itself: same keys, same values.
SuccessBodyReturnedUnchanged ==
    \A i \in DOMAIN inv :
        /\ Answered(i) /\ inv[i].op \in Mutating /\ Ok(StatusOf(i))
        /\ JsonParse(BodyOf(i)).ok
        => /\ inv[i].result = Return(JsonParse(BodyOf(i)).val)
           /\ Text(BodyOf(i)) = "{\"success\":true,\"token\":\"xyz\"}"
                => /\ HasKeys(inv[i].result.val, {"success", "token"})
                   /\ inv[i].result.val.f["success"] = Bool(TRUE)
                   /\ inv[i].result.val.f["token"] = Str("xyz")

\* C7 witness: verifyOTP returned the body {"success":true,"token":"xyz"}.
TokenBodyReturned ==
    \E i \in DOMAIN inv :
        /\ Answered(i) /\ inv[i].op = "verifyOTP" /\ StatusOf(i) = 200
        /\ Text(BodyOf(i)) = "{\"success\":true,\"token\":\"xyz\"}"
        /\ Get(inv[i].result.val, "token") = Str("xyz")

\* C8: getConfig never turns a failure into a value: a transport failure is
\* thrown on as it came, a failure status is thrown as an error whose text
\* holds the status code and the whole raw body, only a success status
\* returns, and what it returns is the parsed body; one fetch, no retry.
ConfigFailuresPropagate ==
    \A i \in DOMAIN inv :
        Completed(i) /\ inv[i].op = "getConfig"
        => LET r == inv[i].result
           IN /\ inv[i].fetches = 1
              /\ inv[i].outcome.threw => r = Throw(inv[i].outcome.error)
              /\ ~inv[i].outcome.threw /\ ~Ok(StatusOf(i))
                   => /\ r.kind = "throw"
                      /\ r.val.v = "HTTP error! status: " \o ToString(StatusOf(i))
                                   \o ", body: " \o Text(BodyOf(i))
              /\ r.kind = "return"
                   => /\ ~inv[i].outcome.threw /\ Ok(StatusOf(i))
                      /\ JsonParse(BodyOf(i)).ok
                      /\ r.val = JsonParse(BodyOf(i)).val
              /\ ~inv[i].outcome.threw /\ Ok(StatusOf(i)) /\ JsonParse(BodyOf(i)).ok
                   => r.kind = "return"

\* C8 witness: getConfig at status 500 with a proxy's HTML page threw an
\* error carrying the status and the page.
ConfigErrorCarriesBody ==
    \E i \in DOMAIN inv :
        /\ Completed(i) /\ inv[i].op = "getConfig"
        /\ inv[i].outcome = Response(500, HtmlBody)
        /\ inv[i].result.kind = "throw"
        /\ inv[i].result.val.v
             = "HTTP error! status: 500, body: <html>502 Bad Gateway</html>"

\* C9: requestAuth's request body has the key display_name if and only if
\* displayName was given and is not empty; otherwise it is exactly {email}.
DisplayNameOmitted ==
    \A i \in DOMAIN inv :
        inv[i].op = "requestAuth"
        => LET dn == inv[i].displayName
           IN inv[i].request.body =
                IF dn.t = "string" /\ dn.v # ""
                THEN <<"{\"email\":\"a@b.com\",\"display_name\":\"" \o dn.v \o "\"}">>
                ELSE <<"{\"email\":\"a@b.com\"}">>

\* C9 witness: requestAuth called with an empty displayName sent {email} alone.
EmptyDisplayNameSent ==
    \E i \in DOMAIN inv :
        /\ inv[i].op = "requestAuth" /\ inv[i].displayName = Str("")
        /\ inv[i].pc = "fetching"
        /\ inv[i].request.body = <<"{\"email\":\"a@b.com\"}">>

\* C10: every invocation issues exactly one fetch, on every path, and once
\* the fetch has settled the invocation completes; invocations made at the
\* same time each issue their own.
OneFetchPerInvocation ==
    /\ [](\A i \in 1..MaxConcurrent :
            inv[i].fetches = IF inv[i].pc = "idle" THEN 0 ELSE 1)
    /\ \A i \in 1..MaxConcurrent :
         (inv[i].pc = "fetched") ~> (inv[i].pc = "done")

\* C10 witness: two requestAuth invocations for the same email waiting at
\* once, each on a fetch of its own.
TwoRequestAuthInFlight ==
    \E i, j \in DOMAIN inv :
        /\ i # j
        /\ inv[i].op = "requestAuth" /\ inv[j].op = "requestAuth"
        /\ inv[i].pc = "fetching" /\ inv[j].pc = "fetching"
        /\ inv[i].request = inv[j].request
        /\ inv[i].fetches = 1 /\ inv[j].fetches = 1

====
